---------------------------- MODULE Spec2Model ----------------------------
(***************************************************************************)
(* Archive/Delete engine of the log-management chat backend.               *)
(*                                                                         *)
(* The model follows one ARCHIVE or DELETE request from the moment it      *)
(* enters through the chat tool (cloud_mcp/server.py) or through the       *)
(* confirmation endpoint (api/chat.py) until CRUDService returns.  The     *)
(* database holds the two main tables, their archive twins and job_logs;   *)
(* the request runs in one SQLAlchemy session whose uncommitted writes are *)
(* kept apart from the committed tables.  Init ranges over the small       *)
(* database contents, so one request from every such content is explored.  *)
(* RerunSpec lets the caller repeat a successful ARCHIVE; RaceSpec adds a  *)
(* second session that commits into the archive between the duplicate     *)
(* probe and the INSERT.                                                   *)
(*                                                                         *)
(* Three further components have a specification of their own, each with  *)
(* the others at rest: the region session manager (RegionSpec), the chat   *)
(* orchestrator's turns of one session (ChatSpec) and the Safe-SQL         *)
(* executor (SqlSpec).                                                     *)
(***************************************************************************)
EXTENDS Integers, Sequences, FiniteSets

VARIABLES
    db,        \* committed rows: table name -> bag of rows
    jobLogs,   \* committed job_logs rows, in id order
    tx,        \* the session's open transaction (uncommitted working copy)
    call,      \* the request being served
    pc,        \* position of the request
    res,       \* what CRUDService (or the wrapper before it) returned
    pre,       \* the committed tables when the request arrived
    loc,       \* locals of execute_*_operation / _perform_archive
    clock,     \* the database's current_timestamp / datetime.now()
    engines,            \* RegionService.engines: region -> engine
    session_makers,     \* RegionService.session_makers: region -> bound engine
    connection_status,  \* RegionService.connection_status: region -> bool
    disposed,  \* the engines dispose() was called on
    created,   \* how many engines create_engine has made
    tasks,     \* the connect / disconnect coroutines of the event loop
    serial,    \* the manager had every started call run alone, in start order
    vended,    \* what the last get_session found
    last,      \* the last connect / disconnect call that returned
    chatLogs,  \* the ChatOpsLog rows of one chat session, oldest first
    turn,      \* the chat turn just answered
    generated_sql,  \* the query the LLM produced for execute_sql_query
    sqlResult       \* what execute_sql_query returned and sent to the database

crudVars == <<db, jobLogs, tx, call, pc, res, pre, loc, clock>>
regionVars ==
    <<engines, session_makers, connection_status, disposed, created, tasks,
      serial, vended, last>>
chatVars == <<chatLogs, turn>>
sqlVars == <<generated_sql, sqlResult>>
vars == <<crudVars, regionVars, chatVars, sqlVars>>

-----------------------------------------------------------------------------
(* Time.  Timestamps are the 14-character YYYYMMDDHHMMSS strings of the     *)
(* tables; they are fixed width, so string order is numeric order.  A day   *)
(* has TicksPerDay instants; DateOf keeps the YYYYMMDD prefix (midnight).   *)

TicksPerDay == 3
NowDay == 40
ArchiveMinDays == 7
DeleteMinDays == 30
ToolArchiveMinDays == 7
ToolDeleteMinDays == 30
DefaultArchiveDays == 7
DefaultDeleteDays == 30

Now == NowDay * TicksPerDay + 1
Days(n) == n * TicksPerDay
DateOf(ts) == ts - (ts % TicksPerDay)

ArchCut == Now - Days(ArchiveMinDays)
DelCut == Now - Days(DeleteMinDays)

\* Representative row times: older than 30 days; older than 7 days (the
\* midnight of the cut-off day); later than now - 7 days but on the same
\* calendar day as the cut-off.
TOld == DelCut - 1
TMid == ArchCut - 1
TEdge == ArchCut + 1
RowTimes == {TOld, TMid, TEdge}

-----------------------------------------------------------------------------
(* Tables and rows.                                                         *)

Activities == "dsiactivities"
Transactions == "dsitransactionlog"
ActivitiesArchive == "dsiactivitiesarchive"
TransactionsArchive == "dsitransactionlogarchive"
OtherTable == "job_logs"

MainTables == {Activities, Transactions}
ArchiveTables == {ActivitiesArchive, TransactionsArchive}
DbTables == MainTables \cup ArchiveTables
TableNames == DbTables \cup {OtherTable}

NULL == "NULL"
Keys == {"k1", "k2"}
MaxMainRows == 2
MaxArchiveRows == 1

\* A row keeps the columns the engine looks at: k is ActivityID (activities)
\* or GUID (transactions, nullable); t is PostedTime or WhenReceived.
ActivityRows == [k : Keys, t : RowTimes]
TransactionRows == [k : Keys \cup {NULL}, t : RowTimes]

IsActivitiesTable(table) == table \in {Activities, ActivitiesArchive}

\* ArchiveConfig.DUPLICATE_CHECK_STRATEGY: GUID, or (ActivityID, PostedTime).
ArchiveKey(table, r) == IF IsActivitiesTable(table) THEN <<r.k, r.t>> ELSE <<r.k>>

RECURSIVE SumOver(_, _)
SumOver(B, S) ==
    IF S = {} THEN 0
    ELSE LET r == CHOOSE x \in S : TRUE IN B[r] + SumOver(B, S \ {r})

EmptyTable == [r \in {} |-> 0]
TableOfSet(S) == [r \in S |-> 1]
CountRows(B, S) == SumOver(B, S \cap DOMAIN B)
RemoveRows(B, S) == [r \in (DOMAIN B) \ S |-> B[r]]
AddRows(B, S) ==
    [r \in (DOMAIN B) \cup S |->
        (IF r \in DOMAIN B THEN B[r] ELSE 0) + (IF r \in S THEN 1 ELSE 0)]
KeysOf(table, B) == {ArchiveKey(table, r) : r \in DOMAIN B}

\* Some archive key is held by two rows of the archive table.
HasDuplicateKey(table, B) ==
    \/ \E r \in DOMAIN B : B[r] > 1 /\ (IsActivitiesTable(table) \/ r.k # NULL)
    \/ \E r1, r2 \in DOMAIN B :
          r1 # r2 /\ r1.k # NULL /\ ArchiveKey(table, r1) = ArchiveKey(table, r2)

-----------------------------------------------------------------------------
(* Filters.  A filter dictionary is a record with every key the engine      *)
(* reads; Absent marks a key that is not in the dictionary.                 *)

Absent == 0 - 1
LimitN == 1

NoDateFilter == [kind |-> "absent", n |-> 0]
OlderThanDays(n) == [kind |-> "older_than_days", n |-> n]
Yesterday == [kind |-> "yesterday", n |-> 0]
Recent == [kind |-> "recent", n |-> 0]
\* A phrase such as "older than 7 days": the router's own example filter.
FreeText == [kind |-> "free_text", n |-> 0]

NoFilters ==
    [date_start |-> Absent, date_end |-> Absent, date_comparison |-> "",
     date_filter |-> NoDateFilter, limit |-> Absent, confirmed |-> FALSE]

\* The filter dictionaries a caller supplies.
FilterShapes ==
    {NoFilters}
    \cup {[NoFilters EXCEPT !.date_end = e] : e \in {TOld, TMid, TEdge, Now}}
    \cup {[NoFilters EXCEPT !.date_start = TMid]}
    \cup {[NoFilters EXCEPT !.date_start = TOld, !.date_end = TMid]}
    \cup {[NoFilters EXCEPT !.limit = LimitN]}
    \cup {[NoFilters EXCEPT !.limit = LimitN, !.date_end = TMid]}
    \cup {[NoFilters EXCEPT !.date_filter = d] :
            d \in {OlderThanDays(3), OlderThanDays(DefaultArchiveDays),
                   OlderThanDays(DefaultDeleteDays), Yesterday, Recent, FreeText}}

HasLimit(f) == f.limit # Absent /\ f.limit > 0

\* The WHERE clause _perform_archive builds from the date filters.
WhereClause(f, r) ==
    IF f.date_start # Absent /\ f.date_end # Absent
    THEN f.date_start <= r.t /\ r.t <= f.date_end
    ELSE IF f.date_end # Absent
         THEN IF f.date_comparison = "older_than"
              THEN r.t < f.date_end
              ELSE r.t <= f.date_end
         ELSE TRUE

\* The WHERE clause of the duplicate probe (_check_existing_records).
ProbeWhere(f, r) ==
    IF f.date_start # Absent /\ f.date_end # Absent
    THEN f.date_start <= r.t /\ r.t <= f.date_end
    ELSE IF f.date_end # Absent
         THEN IF f.date_comparison = "older_than"
              THEN r.t < f.date_end
              ELSE r.t <= f.date_end
         ELSE TRUE

\* The row predicate _apply_filters adds to an ORM query (limit apart).
ApplyFilters(f, r) ==
    IF f.date_start # Absent /\ f.date_end # Absent
    THEN f.date_start <= r.t /\ r.t <= f.date_end
    ELSE IF f.date_end # Absent
         THEN IF f.date_comparison = "older_than"
              THEN r.t < f.date_end
              ELSE r.t <= f.date_end
         ELSE TRUE

Min(a, b) == IF a <= b THEN a ELSE b

\* ORDER BY <time field> ASC LIMIT n over the rows S: every choice the
\* database may make (rows with equal times come in any order).
TopN(S, n) ==
    {C \in SUBSET S :
        /\ Cardinality(C) = Min(n, Cardinality(S))
        /\ \A a \in C, b \in S \ C : a.t <= b.t}

\* _get_archive_table_name
GetArchiveTableName(table) ==
    IF table = Activities THEN ActivitiesArchive
    ELSE IF table = Transactions THEN TransactionsArchive
    ELSE IF table \in ArchiveTables THEN table
    ELSE "unknownarchive"

\* _get_model_classes: <<main model, archive model>>, or a ValueError.
SupportedTable(table) == table \in DbTables
GetModelClasses(table) ==
    IF table = Activities THEN <<Activities, ActivitiesArchive>>
    ELSE IF table = Transactions THEN <<Transactions, TransactionsArchive>>
    ELSE <<table, table>>

\* AuthService.check_permission(role, "ARCHIVE" | "DELETE")
CheckPermission(role, op) == role = "Admin"

-----------------------------------------------------------------------------
(* Requests, results, job_logs rows.                                        *)

Ops == {"ARCHIVE", "DELETE"}
Roles == {"Admin", "Monitor"}

\* archive_records / delete_archived_records(table_name, filters, user_id):
\* the confirmed flag travels inside the filters.
ToolCalls ==
    {[via |-> "tool", op |-> o, table |-> t, filters |-> [f EXCEPT !.confirmed = c],
      confirmed |-> c, role |-> "Admin"] :
        o \in Ops, t \in TableNames, f \in FilterShapes, c \in BOOLEAN}

\* POST /chat/confirm (ConfirmationRequest) by an authenticated user.
ConfirmCalls ==
    [via : {"confirm"}, op : Ops, table : TableNames, filters : FilterShapes,
     confirmed : BOOLEAN, role : Roles]

NoCall ==
    [via |-> "none", op |-> "none", table |-> "none", filters |-> NoFilters,
     confirmed |-> FALSE, role |-> "none"]

NoRes ==
    [success |-> FALSE, error |-> "none", requires_confirmation |-> FALSE,
     preview_count |-> 0, records_archived |-> 0, records_deleted |-> 0,
     records_skipped |-> 0]
Failure(kind) == [NoRes EXCEPT !.error = kind]

\* run counts the calls of the caller's request; first is what the call
\* before this one returned; raced holds the archive rows another session
\* committed after the probe; fallback tells that the except branch of the
\* INSERT ran.
NoLoc ==
    [operation |-> NoCall, existing |-> {}, skipped |-> 0, archived |-> 0,
     deleted |-> 0, ins |-> {}, del |-> {}, began |-> FALSE, run |-> 1,
     first |-> NoRes, raced |-> {}, fallback |-> FALSE]

NoTx == [open |-> FALSE, tables |-> <<>>, logs |-> <<>>]

\* The session a job_logs row was written through: JobLoggerService shares
\* the CRUDService session.
RequestSession == "request_session"

JobLog(type, table, status, n, started, finished, session) ==
    [job_type |-> type, table_name |-> table, status |-> status,
     records_affected |-> n, started_at |-> started, finished_at |-> finished,
     by |-> session]

\* JobLoggerService.start_job_log: an IN_PROGRESS row, flushed, not committed.
StartJobLog(logs, type, table, now) ==
    Append(logs, JobLog(type, table, "IN_PROGRESS", 0, now, Absent, RequestSession))

\* JobLoggerService.complete_job_log on the row start_job_log returned.
CompleteJobLog(logs, status, n, now) ==
    [logs EXCEPT ![Len(logs)] =
        [@ EXCEPT !.status = status, !.records_affected = n, !.finished_at = now]]

\* JobLoggerService.log_failed_operation: one FAILED row.
LogFailedOperation(logs, type, table, now) ==
    Append(logs, JobLog(type, table, "FAILED", 0, now, now, RequestSession))

-----------------------------------------------------------------------------
(* The wrappers' filter processing (cloud_mcp/server.py).                   *)

\* The date_filter the wrapper works with: the default when the caller gave
\* neither date_filter nor date_end.
EffectiveDateFilter(f, defaultDays) ==
    IF f.date_filter.kind = "absent" /\ f.date_end = Absent
    THEN OlderThanDays(defaultDays)
    ELSE f.date_filter

\* The wrapper's own refusals: fewer days than the minimum, "yesterday",
\* "recent".
ToolRefuses(f, defaultDays, minDays) ==
    LET df == EffectiveDateFilter(f, defaultDays) IN
    \/ df.kind = "older_than_days" /\ df.n < minDays
    \/ df.kind \in {"yesterday", "recent"}

\* The filters the wrapper hands to CRUDService: date_filter is popped; a
\* cut-off it could compute becomes date_end with date_comparison.
ProcessedFilters(f, defaultDays) ==
    LET df == EffectiveDateFilter(f, defaultDays) IN
    IF df.kind = "older_than_days"
    THEN [f EXCEPT !.date_filter = NoDateFilter, !.date_end = Now - Days(df.n),
                   !.date_comparison = "older_than"]
    ELSE [f EXCEPT !.date_filter = NoDateFilter]

\* _archive_records: the ParsedOperation and arguments passed to the core.
ArchiveRecordsOperation(c) ==
    [c EXCEPT !.filters = ProcessedFilters(c.filters, DefaultArchiveDays),
              !.confirmed = c.filters.confirmed, !.role = "Admin"]

\* _delete_archived_records: the table is mapped to its archive table.
DeleteArchivedRecordsOperation(c) ==
    [c EXCEPT !.filters = ProcessedFilters(c.filters, DefaultDeleteDays),
              !.table = GetArchiveTableName(c.table),
              !.confirmed = c.filters.confirmed, !.role = "Admin"]

\* is_archive_target of the ParsedOperation each caller builds.
IsArchiveTarget(c) == c.op = "DELETE"

-----------------------------------------------------------------------------
(* CRUDService: the checks before anything is written.                      *)

\* SAFETY CHECK of execute_archive_operation / execute_delete_operation:
\* only when date_end is present, and on its YYYYMMDD prefix.
GateRefuses(f, minDays) ==
    /\ f.date_end # Absent
    /\ DateOf(f.date_end) > Now - Days(minDays)

MinDaysOf(op) == IF op = "ARCHIVE" THEN ArchiveMinDays ELSE DeleteMinDays

\* A core that runs every statement on the first model class.
SourceTableIsMainModel(o) == GetModelClasses(o.table)[1]

\* The table a preview counts and an execution works on.
SourceTable(o) ==
    IF o.op = "ARCHIVE" THEN GetModelClasses(o.table)[1] ELSE GetModelClasses(o.table)[2]

\* What the core returns before opening a transaction, or "execute".
EntryVerdict(o) ==
    IF ~CheckPermission(o.role, o.op) THEN "PermissionDenied"
    ELSE IF o.op = "DELETE" /\ ~IsArchiveTarget(o) THEN "NotArchiveTarget"
    ELSE IF GateRefuses(o.filters, MinDaysOf(o.op)) THEN "SafetyRuleViolation"
    ELSE IF ~SupportedTable(o.table) THEN "UnsupportedTable"
    ELSE IF ~o.confirmed THEN "preview"
    ELSE "execute"

\* query.count() of _preview_*_operation.
PreviewCount(o, tables) ==
    LET B == tables[SourceTable(o)]
        n == CountRows(B, {r \in DOMAIN B : ApplyFilters(o.filters, r)})
    IN IF HasLimit(o.filters) THEN Min(o.filters.limit, n) ELSE n

\* A preview that never asks for confirmation.
PreviewWithoutConfirmation(o, tables) ==
    [NoRes EXCEPT !.success = TRUE, !.error = "",
                  !.preview_count = PreviewCount(o, tables)]

Preview(o, tables) ==
    LET n == PreviewCount(o, tables) IN
    [NoRes EXCEPT !.success = TRUE, !.error = "", !.preview_count = n,
                  !.requires_confirmation = (n > 0)]

-----------------------------------------------------------------------------
(* CRUDService._perform_archive and _perform_delete, statement by statement.*)

\* _check_existing_records: the archive keys of matching main rows that the
\* archive already holds; the empty set for any other table.
CheckExistingRecords(o, tables) ==
    IF o.table = Transactions
    THEN LET candidates ==
                 {<<r.k>> : r \in {x \in DOMAIN tables[Transactions] :
                                     ProbeWhere(o.filters, x) /\ x.k # NULL}}
         IN candidates \cap KeysOf(TransactionsArchive, tables[TransactionsArchive])
    ELSE IF o.table = Activities
    THEN LET candidates ==
                 {<<r.k, r.t>> : r \in {x \in DOMAIN tables[Activities] :
                                          ProbeWhere(o.filters, x)}}
         IN candidates \cap KeysOf(ActivitiesArchive, tables[ActivitiesArchive])
    ELSE {}

\* An INSERT ... SELECT for transactions without its GUID IS NOT NULL guards.
InsertCandidatesKeepsNull(o, tables, existing) ==
    LET main == DOMAIN tables[o.table]
        arch == tables[GetArchiveTableName(o.table)]
        matching == {r \in main : WhereClause(o.filters, r)}
        final ==
            IF existing = {} THEN matching
            ELSE IF o.table = Transactions
                 THEN {r \in matching : <<r.k>> \notin existing}
                 ELSE {r \in matching : <<r.k, r.t>> \notin existing}
    IN IF o.table = Transactions
       THEN {r \in final : ~(\E a \in DOMAIN arch : a.k = r.k)}
       ELSE final

\* The rows the INSERT ... SELECT reads before ORDER BY / LIMIT: the filter,
\* the exclusion of the probed duplicates and, for transactions, the
\* NOT EXISTS and GUID IS NOT NULL guards.
InsertCandidates(o, tables, existing) ==
    LET main == DOMAIN tables[o.table]
        arch == tables[GetArchiveTableName(o.table)]
        matching == {r \in main : WhereClause(o.filters, r)}
        final ==
            IF existing = {} THEN matching
            ELSE IF o.table = Transactions
                 THEN {r \in matching : r.k # NULL /\ <<r.k>> \notin existing}
                 ELSE {r \in matching : <<r.k, r.t>> \notin existing}
    IN IF o.table = Transactions
       THEN {r \in final : r.k # NULL /\ ~(\E a \in DOMAIN arch : a.k = r.k)}
       ELSE final

\* The row sets the INSERT may copy.
InsertChoices(o, tables, existing) ==
    LET cand == InsertCandidates(o, tables, existing) IN
    IF HasLimit(o.filters) THEN TopN(cand, o.filters.limit) ELSE {cand}

\* The row sets the DELETE FROM main may remove: the filter without the
\* exclusions; with a limit, the rows whose primary key (ActivityID or GUID)
\* is among the first N matching rows.
DeleteChoices(o, tables) ==
    LET main == DOMAIN tables[o.table]
        matching == {r \in main : WhereClause(o.filters, r)}
    IN IF HasLimit(o.filters)
       THEN {{r \in main : r.k # NULL /\ r.k \in {x.k : x \in C}} :
                C \in TopN(matching, o.filters.limit)}
       ELSE {matching}

\* _perform_delete: the archive rows query.delete() removes.
PerformDeleteRows(o, tables) ==
    {r \in DOMAIN tables[SourceTable(o)] : ApplyFilters(o.filters, r)}

\* Query.delete() refuses a query on which limit() was called.
PerformDeleteRaises(o) == HasLimit(o.filters)

\* A rollback that leaves the statements already executed in place.
AfterRollbackKeepsWrites(committed, working) == working

\* What the database holds after session.rollback(): the committed rows.
AfterRollback(committed, working) == committed

\* A commit that does not make the session's rows durable.
AfterCommitLosesWrites(committed, working) == committed

\* What the database holds after session.commit(): the session's rows.
AfterCommit(committed, working) == working

JobTableName(o) == IF o.op = "ARCHIVE" THEN o.table ELSE GetArchiveTableName(o.table)

-----------------------------------------------------------------------------
(* Region session manager (services/region_service.py).  The manager keeps  *)
(* three dictionaries; connect_to_region and disconnect_from_region are     *)
(* coroutines of the one event loop, so a call that started runs until its  *)
(* next await, and neither contains one.                                    *)

Regions == {"US", "EU"}
Tasks == {1, 2}
MaxEngines == 2

EmptyDict == [k \in {} |-> 0]
Put(d, k, v) == [x \in (DOMAIN d) \cup {k} |-> IF x = k THEN v ELSE d[x]]

\* A del statement that removes nothing.
DelNothing(d, k) == d

\* del d[k]
Del(d, k) == [x \in (DOMAIN d) \ {k} |-> d[x]]

\* A session maker that is made once per region and kept.
BindSessionMakerOnce(d, k, e) == IF k \in DOMAIN d THEN d ELSE Put(d, k, e)

\* self.session_makers[region] = sessionmaker(..., bind=engine)
BindSessionMaker(d, k, e) == Put(d, k, e)

\* The manager's state as one record (the variables below, together).
Manager ==
    [engines |-> engines, session_makers |-> session_makers,
     connection_status |-> connection_status, disposed |-> disposed,
     created |-> created]

NewManager ==
    [engines |-> EmptyDict, session_makers |-> EmptyDict,
     connection_status |-> EmptyDict, disposed |-> {}, created |-> 0]

\* is_connected: connection_status.get(region, False)
IsConnected(M, region) ==
    region \in DOMAIN M.connection_status /\ M.connection_status[region]

\* get_session: a session of the region's session maker, or ValueError.
VendsSession(M, region) == region \in DOMAIN M.session_makers

\* How a connect call ends: no URL for the region; create_engine or SELECT 1
\* raising; update_connection_status raising after the three assignments;
\* return True.
ConnectOutcomes == {"no_url", "refused", "status_write_failed", "ok"}

\* A connect call run alone, to its end.
ConnectEffect(M, c) ==
    IF c.outcome = "no_url" THEN M
    ELSE LET e == M.created + 1
             M1 == [M EXCEPT !.created = e]
         IN IF c.outcome = "refused"
            THEN [M1 EXCEPT !.connection_status = Put(@, c.region, FALSE)]
            ELSE [M1 EXCEPT !.engines = Put(@, c.region, e),
                            !.session_makers = BindSessionMaker(@, c.region, e),
                            !.connection_status =
                                Put(@, c.region, c.outcome = "ok")]

\* How a disconnect call ends: engine.dispose() raising; return True.
DisconnectOutcomes == {"dispose_raises", "ok"}

\* A disconnect call run alone, to its end.  del session_makers[region]
\* raises KeyError when the region has an engine and no session maker.
DisconnectEffect(M, c) ==
    IF c.region \in DOMAIN M.engines /\ c.outcome = "dispose_raises" THEN M
    ELSE IF c.region \in DOMAIN M.engines
    THEN LET M1 == [M EXCEPT !.disposed = @ \cup {M.engines[c.region]},
                             !.engines = Del(@, c.region)]
         IN IF c.region \in DOMAIN M.session_makers
            THEN [M1 EXCEPT !.session_makers = Del(@, c.region),
                            !.connection_status = Put(@, c.region, FALSE)]
            ELSE M1
    ELSE [M EXCEPT !.connection_status = Put(@, c.region, FALSE)]

NoTask ==
    [kind |-> "none", region |-> "none", pc |-> "idle", outcome |-> "none",
     engine |-> 0, before |-> NewManager]

NoLast ==
    [kind |-> "none", region |-> "none", result |-> FALSE,
     before |-> NewManager, after |-> NewManager]

NoSession == [region |-> "none", vended |-> FALSE, connected |-> FALSE]

\* The locks a coroutine holds while it changes the dictionaries: the class
\* creates none and the two coroutines acquire none.
LocksHeld(t) == {}

\* A coroutine that yields at every statement, as threads would.
MayRunInterleaved(t) == TRUE

\* The event loop: a coroutine runs only while no other is between its first
\* statement and its return.
MayRun(t) == \A u \in Tasks \ {t} : tasks[u].pc = "idle"

\* return: the awaiting handler gets the result.
Finish(t, ok) ==
    /\ tasks' = [tasks EXCEPT ![t] = NoTask]
    /\ last' = [kind |-> tasks[t].kind, region |-> tasks[t].region,
                result |-> ok, before |-> tasks[t].before, after |-> Manager']

\* connect_to_region: _get_database_url_for_region.
ConnectLookup(t) ==
    /\ UNCHANGED <<crudVars, chatVars, sqlVars>>
    /\ tasks[t].pc = "idle"
    /\ MayRun(t)
    /\ created + Cardinality({u \in Tasks : tasks[u].pc = "create"})
          < MaxEngines
    /\ UNCHANGED <<engines, session_makers, connection_status, disposed,
                   created, vended>>
    /\ \E r \in Regions, outcome \in ConnectOutcomes :
          LET c == [NoTask EXCEPT !.kind = "connect", !.region = r,
                                  !.outcome = outcome, !.before = Manager]
          IN /\ serial' = ConnectEffect(serial, c)
             /\ IF outcome = "no_url"
                THEN /\ tasks' = tasks
                     /\ last' = [kind |-> "connect", region |-> r,
                                 result |-> FALSE, before |-> Manager,
                                 after |-> Manager]
                ELSE /\ tasks' = [tasks EXCEPT ![t] =
                                     [c EXCEPT !.pc = "create"]]
                     /\ last' = last

\* create_engine and the SELECT 1 test.
ConnectCreate(t) ==
    /\ UNCHANGED <<crudVars, chatVars, sqlVars>>
    /\ tasks[t].pc = "create"
    /\ MayRun(t)
    /\ created' = created + 1
    /\ tasks' = [tasks EXCEPT ![t].engine = created + 1,
                              ![t].pc = IF tasks[t].outcome = "refused"
                                        THEN "except" ELSE "set_engine"]
    /\ UNCHANGED <<engines, session_makers, connection_status, disposed,
                   serial, vended, last>>

\* self.engines[region] = engine
ConnectSetEngine(t) ==
    /\ UNCHANGED <<crudVars, chatVars, sqlVars>>
    /\ tasks[t].pc = "set_engine"
    /\ MayRun(t)
    /\ engines' = Put(engines, tasks[t].region, tasks[t].engine)
    /\ tasks' = [tasks EXCEPT ![t].pc = "set_maker"]
    /\ UNCHANGED <<session_makers, connection_status, disposed, created,
                   serial, vended, last>>

\* self.session_makers[region] = sessionmaker(bind=engine)
ConnectSetSessionMaker(t) ==
    /\ UNCHANGED <<crudVars, chatVars, sqlVars>>
    /\ tasks[t].pc = "set_maker"
    /\ MayRun(t)
    /\ session_makers' =
          BindSessionMaker(session_makers, tasks[t].region, tasks[t].engine)
    /\ tasks' = [tasks EXCEPT ![t].pc = "set_status"]
    /\ UNCHANGED <<engines, connection_status, disposed, created, serial,
                   vended, last>>

\* self.connection_status[region] = True
ConnectSetStatus(t) ==
    /\ UNCHANGED <<crudVars, chatVars, sqlVars>>
    /\ tasks[t].pc = "set_status"
    /\ tasks[t].kind = "connect"
    /\ MayRun(t)
    /\ connection_status' = Put(connection_status, tasks[t].region, TRUE)
    /\ tasks' = [tasks EXCEPT ![t].pc = "update"]
    /\ UNCHANGED <<engines, session_makers, disposed, created, serial, vended,
                   last>>

\* update_connection_status(db, region, True), then return True.
ConnectUpdate(t) ==
    /\ UNCHANGED <<crudVars, chatVars, sqlVars>>
    /\ tasks[t].pc = "update"
    /\ MayRun(t)
    /\ UNCHANGED <<engines, session_makers, connection_status, disposed,
                   created, serial, vended>>
    /\ IF tasks[t].outcome = "ok"
       THEN Finish(t, TRUE)
       ELSE /\ tasks' = [tasks EXCEPT ![t].pc = "except"]
            /\ last' = last

\* except: self.connection_status[region] = False, return False.
ConnectExcept(t) ==
    /\ UNCHANGED <<crudVars, chatVars, sqlVars>>
    /\ tasks[t].pc = "except"
    /\ MayRun(t)
    /\ connection_status' = Put(connection_status, tasks[t].region, FALSE)
    /\ UNCHANGED <<engines, session_makers, disposed, created, serial, vended>>
    /\ Finish(t, FALSE)

\* disconnect_from_region: if region in self.engines: dispose().
DisconnectDispose(t) ==
    /\ UNCHANGED <<crudVars, chatVars, sqlVars>>
    /\ tasks[t].pc = "idle"
    /\ MayRun(t)
    /\ UNCHANGED <<engines, session_makers, connection_status, created, vended>>
    /\ \E r \in Regions, outcome \in DisconnectOutcomes :
          LET c == [NoTask EXCEPT !.kind = "disconnect", !.region = r,
                                  !.outcome = outcome, !.before = Manager]
          IN /\ serial' = DisconnectEffect(serial, c)
             /\ IF r \in DOMAIN engines /\ outcome = "dispose_raises"
                THEN /\ disposed' = disposed
                     /\ tasks' = tasks
                     /\ last' = [kind |-> "disconnect", region |-> r,
                                 result |-> FALSE, before |-> Manager,
                                 after |-> Manager]
                ELSE /\ disposed' = IF r \in DOMAIN engines
                                    THEN disposed \cup {engines[r]}
                                    ELSE disposed
                     /\ tasks' = [tasks EXCEPT ![t] =
                                     [c EXCEPT !.pc = IF r \in DOMAIN engines
                                                      THEN "del_engine"
                                                      ELSE "clear_status"]]
                     /\ last' = last

\* del self.engines[region]
DisconnectDelEngine(t) ==
    /\ UNCHANGED <<crudVars, chatVars, sqlVars>>
    /\ tasks[t].pc = "del_engine"
    /\ MayRun(t)
    /\ UNCHANGED <<session_makers, connection_status, disposed, created,
                   serial, vended>>
    /\ IF tasks[t].region \in DOMAIN engines
       THEN /\ engines' = Del(engines, tasks[t].region)
            /\ tasks' = [tasks EXCEPT ![t].pc = "del_maker"]
            /\ last' = last
       ELSE /\ UNCHANGED engines
            /\ Finish(t, FALSE)

\* del self.session_makers[region]; a KeyError ends the call with False.
DisconnectDelSessionMaker(t) ==
    /\ UNCHANGED <<crudVars, chatVars, sqlVars>>
    /\ tasks[t].pc = "del_maker"
    /\ MayRun(t)
    /\ UNCHANGED <<engines, connection_status, disposed, created, serial,
                   vended>>
    /\ IF tasks[t].region \in DOMAIN session_makers
       THEN /\ session_makers' = Del(session_makers, tasks[t].region)
            /\ tasks' = [tasks EXCEPT ![t].pc = "clear_status"]
            /\ last' = last
       ELSE /\ UNCHANGED session_makers
            /\ Finish(t, FALSE)

\* self.connection_status[region] = False, return True.
DisconnectSetStatus(t) ==
    /\ UNCHANGED <<crudVars, chatVars, sqlVars>>
    /\ tasks[t].pc = "clear_status"
    /\ MayRun(t)
    /\ connection_status' = Put(connection_status, tasks[t].region, FALSE)
    /\ UNCHANGED <<engines, session_makers, disposed, created, serial, vended>>
    /\ Finish(t, TRUE)

\* get_session(region), a plain function called on the event-loop thread.
GetSession ==
    /\ UNCHANGED <<crudVars, chatVars, sqlVars>>
    /\ \A u \in Tasks : tasks[u].pc = "idle"
    /\ \E r \in Regions :
          vended' = [region |-> r, vended |-> VendsSession(Manager, r),
                     connected |-> IsConnected(Manager, r)]
    /\ UNCHANGED <<engines, session_makers, connection_status, disposed,
                   created, tasks, serial, last>>

RegionAtRest ==
    /\ engines = EmptyDict
    /\ session_makers = EmptyDict
    /\ connection_status = EmptyDict
    /\ disposed = {}
    /\ created = 0
    /\ tasks = [t \in Tasks |-> NoTask]
    /\ serial = NewManager
    /\ vended = NoSession
    /\ last = NoLast

-----------------------------------------------------------------------------
(* Chat orchestrator (services/chat_service.py): one session's turns.  A    *)
(* message is the set of phrases the code searches it for; the router's     *)
(* choice and the tool's count are inputs.                                  *)

CallerRoles == {"Admin", "Monitor", "anonymous"}
MaxTurns == 2
RecentLimit == 5

\* Messages that are no confirmation message: "archive activities older
\* than 30 days", "delete archived transactions", "hello", "no".
RequestMessages ==
    {{"archive", "activities", "older than 30 days"}, {"delete", "transaction"},
     {"hello"}, {"NO"}}

\* _is_confirmation_message: a message with CONFIRM ARCHIVE, CONFIRM DELETE,
\* CANCEL or ABORT in it: the literals alone, "cancel, confirm archive",
\* "confirm delete? no".
ConfirmationMessages ==
    {{"CONFIRM ARCHIVE", "archive"}, {"CONFIRM DELETE", "delete"}, {"CANCEL"},
     {"CONFIRM ARCHIVE", "archive", "CANCEL"}, {"CONFIRM DELETE", "delete", "NO"}}

\* phrase in message (after upper() or lower())
Mentions(m, phrase) == phrase \in m

\* The filters the router's JSON carries.
RouterFilters ==
    {[NoFilters EXCEPT !.date_filter = OlderThanDays(DefaultDeleteDays)],
     [NoFilters EXCEPT !.date_filter = OlderThanDays(DefaultDeleteDays),
                       !.limit = LimitN]}

\* parse_with_enhanced_tools: the tool call the router makes for a message,
\* with whatever filters its JSON holds (a confirmed key among them).
RouterChoices(m) ==
    {[via |-> "tool", op |-> o, table |-> t,
      filters |-> [f EXCEPT !.confirmed = c], confirmed |-> c, role |-> "Admin"] :
        o \in {x \in Ops : Mentions(m, IF x = "ARCHIVE" THEN "archive" ELSE "delete")},
        t \in MainTables, f \in RouterFilters, c \in BOOLEAN}

\* What archive_records / delete_archived_records does with a call: the
\* wrapper's refusal, or the core's verdict on the operation it builds.
ToolVerdict(c) ==
    IF c.op = "ARCHIVE"
    THEN IF ToolRefuses(c.filters, DefaultArchiveDays, ToolArchiveMinDays)
         THEN "SafetyRuleViolation"
         ELSE EntryVerdict(ArchiveRecordsOperation(c))
    ELSE IF ToolRefuses(c.filters, DefaultDeleteDays, ToolDeleteMinDays)
         THEN "SafetyRuleViolation"
         ELSE EntryVerdict(DeleteArchivedRecordsOperation(c))

\* The tool's result dictionary, for the count the database gives.
ToolResult(c, count) ==
    LET v == ToolVerdict(c) IN
    [verdict |-> v, success |-> v \in {"preview", "execute"},
     requires_confirmation |-> (v = "preview" /\ count > 0), count |-> count]

NoResponse ==
    [card |-> "none", says |-> "none", names |-> "none", shows_count |-> FALSE]

AccessDenied ==
    [card |-> "access_denied_card", says |-> "Access Denied", names |-> "none",
     shows_count |-> FALSE]

\* A formatter that shows every caller the preview.
FormatWithoutRoleCheck(c, result, caller) ==
    IF result.requires_confirmation
    THEN [card |-> "confirmation_card",
          says |-> IF c.op = "ARCHIVE" THEN "Archive Preview" ELSE "Delete Preview",
          names |-> c.table, shows_count |-> TRUE]
    ELSE IF result.success
    THEN [card |-> "success_card", says |-> "result", names |-> c.table,
          shows_count |-> TRUE]
    ELSE [card |-> "error_card", says |-> "error", names |-> "none",
          shows_count |-> FALSE]

\* _format_archive_response / _format_delete_response
FormatResponse(c, result, caller) ==
    IF caller = "Monitor" THEN AccessDenied
    ELSE IF result.requires_confirmation
    THEN [card |-> "confirmation_card",
          says |-> IF c.op = "ARCHIVE" THEN "Archive Preview" ELSE "Delete Preview",
          names |-> c.table, shows_count |-> TRUE]
    ELSE IF result.success
    THEN [card |-> "success_card", says |-> "result", names |-> c.table,
          shows_count |-> TRUE]
    ELSE [card |-> "error_card", says |-> "error", names |-> "none",
          shows_count |-> FALSE]

\* The ChatOpsLog row process_chat adds before it looks at the message.
NewChatLog(m) ==
    [user_message |-> m, table_name |-> "none", filters_applied |-> NoFilters,
     bot_response |-> NoResponse]

\* get_db() of database.py: a session of SessionLocal, bound to the engine
\* of DATABASE_URL.  archive_records and delete_archived_records take their
\* session from it.
GetDb == "DATABASE_URL"

\* region_service.get_session(region): a session of the region's engine.
\* confirm_operation takes its session from it.
RegionSession(region) == region

\* region is the region of the ChatRequest; database is the database of the
\* session the invoked tool gave to CRUDService.
NoTurn ==
    [caller |-> "none", message |-> {}, invoked |-> NoCall, verdict |-> "none",
     response |-> NoResponse, preview |-> NewChatLog({}), region |-> "none",
     database |-> "none"]

\* .order_by(timestamp.desc()).limit(5): the newest rows first.
RecentLogs(logs) ==
    [i \in 1..Min(RecentLimit, Len(logs)) |-> logs[Len(logs) + 1 - i]]

IsPreviewLog(l) == l.bot_response.says \in {"Archive Preview", "Delete Preview"}
IsOperationLog(l) == Mentions(l.user_message, "archive") \/ Mentions(l.user_message, "delete")

FirstIndex(recent, S) == CHOOSE i \in S : \A j \in S : i <= j

\* The row the confirmation takes as the operation to confirm: the newest
\* preview, else the newest row whose message mentions archive or delete.
FindPreviewOperation(recent) ==
    LET P == {i \in DOMAIN recent : IsPreviewLog(recent[i])}
        O == {i \in DOMAIN recent : IsOperationLog(recent[i])}
    IN IF P # {} THEN <<recent[FirstIndex(recent, P)]>>
       ELSE IF O # {} THEN <<recent[FirstIndex(recent, O)]>>
       ELSE <<>>

\* _execute_stored_confirmation: the stored table name, else a guess.
StoredTableName(p) ==
    IF p.table_name # "none" THEN p.table_name
    ELSE IF Mentions(p.user_message, "activities") THEN Activities
    ELSE IF Mentions(p.user_message, "transaction") THEN Transactions
    ELSE IF p.bot_response.names = Transactions THEN Transactions
    ELSE Activities

\* How LLMDateFilter.parse_date_filter ends.
ExtractOutcomes == {"parsed", "unsure", "raises"}

\* _extract_filters_from_message on the preview turn's user message: the
\* parser's description, nothing, or the "older than N days" pattern.
ExtractFiltersFromMessage(m, outcome) ==
    IF outcome = "parsed" THEN [NoFilters EXCEPT !.date_filter = FreeText]
    ELSE IF outcome = "raises" /\ Mentions(m, "older than 30 days")
    THEN [NoFilters EXCEPT !.date_filter = OlderThanDays(30)]
    ELSE NoFilters

\* The call _execute_stored_confirmation makes.
StoredConfirmationCall(m, p, outcome) ==
    [via |-> "tool",
     op |-> IF Mentions(m, "CONFIRM ARCHIVE") THEN "ARCHIVE" ELSE "DELETE",
     table |-> StoredTableName(p),
     filters |-> [ExtractFiltersFromMessage(p.user_message, outcome)
                     EXCEPT !.confirmed = TRUE],
     confirmed |-> TRUE, role |-> "Admin"]

\* process_chat, a message that is no confirmation: the row is stored first;
\* a greeting is answered at once, any other message goes to the router.
ChatRequest ==
    /\ UNCHANGED <<crudVars, regionVars, sqlVars>>
    /\ Len(chatLogs) < MaxTurns
    /\ \E caller \in CallerRoles, m \in RequestMessages, count \in 0..1,
          region \in Regions :
       \E c \in RouterChoices(m) \cup {NoCall} :
          IF Mentions(m, "hello")
          THEN /\ chatLogs' = Append(chatLogs, NewChatLog(m))
               /\ turn' = [NoTurn EXCEPT !.caller = caller, !.message = m,
                              !.region = region, !.response.says = "welcome"]
          ELSE IF c = NoCall
          THEN /\ chatLogs' = Append(chatLogs,
                     [NewChatLog(m) EXCEPT !.bot_response.says = "conversation"])
               /\ turn' = [NoTurn EXCEPT !.caller = caller, !.message = m,
                              !.region = region, !.response.says = "conversation"]
          ELSE LET result == ToolResult(c, count)
                   response == FormatResponse(c, result, caller)
               IN /\ chatLogs' = Append(chatLogs,
                        [NewChatLog(m) EXCEPT !.table_name = c.table,
                                              !.filters_applied = c.filters,
                                              !.bot_response = response])
                  /\ turn' = [NoTurn EXCEPT !.caller = caller, !.message = m,
                                 !.region = region, !.database = GetDb,
                                 !.invoked = c, !.verdict = result.verdict,
                                 !.response = response]

\* process_chat, a confirmation message: _handle_operation_confirmation.
ChatConfirm ==
    /\ UNCHANGED <<crudVars, regionVars, sqlVars>>
    /\ Len(chatLogs) < MaxTurns
    /\ \E caller \in CallerRoles, m \in ConfirmationMessages,
          outcome \in ExtractOutcomes, region \in Regions :
          LET logs == Append(chatLogs, NewChatLog(m))
              found == FindPreviewOperation(RecentLogs(logs))
              base == [NoTurn EXCEPT !.caller = caller, !.message = m,
                                     !.region = region]
              Answer(says) ==
                  [logs EXCEPT ![Len(logs)].bot_response.says = says]
          IN IF caller # "Admin"
             THEN /\ chatLogs' = logs
                  /\ turn' = [base EXCEPT !.response = AccessDenied]
             ELSE IF Mentions(m, "CANCEL") \/ Mentions(m, "ABORT") \/ Mentions(m, "NO")
             THEN /\ chatLogs' = Answer("cancelled")
                  /\ turn' = [base EXCEPT !.response.says = "cancelled"]
             ELSE IF found = <<>>
             THEN /\ chatLogs' = logs
                  /\ turn' = [base EXCEPT !.response.says = "refused"]
             ELSE LET c == StoredConfirmationCall(m, found[1], outcome)
                      v == ToolVerdict(c)
                  IN /\ chatLogs' = [Answer("result") EXCEPT
                                        ![Len(logs)].filters_applied = c.filters]
                     /\ turn' = [base EXCEPT !.invoked = c, !.verdict = v,
                                    !.database = GetDb,
                                    !.response.says = "result",
                                    !.preview = found[1]]

ChatAtRest ==
    /\ chatLogs = <<>>
    /\ turn = NoTurn

-----------------------------------------------------------------------------
(* Safe-SQL executor (cloud_mcp/server.py, _execute_sql_query).  A query is *)
(* the sequence of its whitespace-separated tokens; the two quote           *)
(* characters are tokens of their own.                                      *)

MaxSqlLen == 6
SqlTokens == {"SELECT", "INSERT", "INTO", "MERGE", "'", "\""}

\* The LLM's answers: every token sequence up to the bound.
RECURSIVE SeqsUpTo(_)
SeqsUpTo(n) ==
    IF n = 0 THEN {<<>>}
    ELSE LET S == SeqsUpTo(n - 1)
         IN S \cup {Append(s, t) : s \in {x \in S : Len(x) = n - 1}, t \in SqlTokens}

\* re.sub(q + "[^" + q + "]*" + q, "", sql): every leftmost pair of the quote
\* character goes, with what is between the two.
RECURSIVE RemoveQuoted(_, _)
RemoveQuoted(s, q) ==
    IF s = <<>> THEN <<>>
    ELSE IF Head(s) # q THEN <<Head(s)>> \o RemoveQuoted(Tail(s), q)
    ELSE LET rest == Tail(s)
             closing == {j \in DOMAIN rest : rest[j] = q}
         IN IF closing = {} THEN s
            ELSE LET j == CHOOSE k \in closing : \A l \in closing : k <= l
                 IN RemoveQuoted(SubSeq(rest, j + 1, Len(rest)), q)

\* sql_no_strings: single-quoted strings removed, then double-quoted ones.
SqlNoStrings(s) == RemoveQuoted(RemoveQuoted(s, "'"), "\"")

\* forbidden_patterns, of which \bINSERT\s+INTO\b and \bMERGE\b stand here.
MatchesForbidden(s) ==
    \/ \E i \in DOMAIN s : s[i] = "INSERT" /\ i < Len(s) /\ s[i + 1] = "INTO"
    \/ \E i \in DOMAIN s : s[i] = "MERGE"

\* The security validation: a forbidden pattern in sql_no_strings, or
\* not sql_upper.startswith('SELECT'); else go on to execute.
SqlValidation(s) ==
    IF MatchesForbidden(SqlNoStrings(s)) THEN "SQLSafetyViolation"
    ELSE IF s = <<>> \/ Head(s) # "SELECT" THEN "SQLSafetyViolation"
    ELSE "execute"

NoSqlResult == [outcome |-> "none", executed |-> <<>>]

\* _execute_sql_query once the LLM has answered: validate, append the LIMIT,
\* db.execute(text(generated_sql)), which may raise.
ExecuteSqlQuery ==
    /\ UNCHANGED <<crudVars, regionVars, chatVars>>
    /\ sqlResult = NoSqlResult
    /\ UNCHANGED generated_sql
    /\ IF SqlValidation(generated_sql) = "SQLSafetyViolation"
       THEN sqlResult' = [outcome |-> "SQLSafetyViolation", executed |-> <<>>]
       ELSE \E ok \in BOOLEAN :
               sqlResult' =
                   [outcome |-> IF ok THEN "success" ELSE "execution_failed",
                    executed |-> Append(generated_sql, "LIMIT 100")]

SqlAtRest ==
    /\ generated_sql = <<>>
    /\ sqlResult = NoSqlResult

-----------------------------------------------------------------------------
(* Initial states: one populated table pair with few rows, no request yet. *)

UniqueGuids(S) == \A r1, r2 \in S : (r1 # r2 /\ r1.k # NULL) => r1.k # r2.k

MainChoices(table) ==
    IF table = Activities
    THEN {S \in SUBSET ActivityRows : Cardinality(S) <= MaxMainRows}
    ELSE {S \in SUBSET TransactionRows : Cardinality(S) <= MaxMainRows /\ UniqueGuids(S)}

ArchiveChoices(table) ==
    {S \in SUBSET ActivityRows :
        /\ Cardinality(S) <= MaxArchiveRows
        /\ (table = Transactions => UniqueGuids(S))}

EmptyDb == [t \in DbTables |-> EmptyTable]

InitialDbs ==
    {[EmptyDb EXCEPT ![m] = TableOfSet(M), ![GetArchiveTableName(m)] = TableOfSet(A)] :
        <<m, M, A>> \in
            UNION {{m2} \X MainChoices(m2) \X ArchiveChoices(m2) : m2 \in MainTables}}

Init ==
    /\ db \in InitialDbs
    /\ jobLogs = <<>>
    /\ tx = NoTx
    /\ call = NoCall
    /\ pc = "idle"
    /\ res = NoRes
    /\ pre = db
    /\ loc = NoLoc
    /\ clock = Now
    /\ RegionAtRest
    /\ ChatAtRest
    /\ SqlAtRest

-----------------------------------------------------------------------------
(* Actions.                                                                 *)

\* The except branch of execute_*_operation: rollback, then
\* log_failed_operation and commit on the same session (a failure of which
\* is only logged), then the error is returned.
Fail(logged) ==
    /\ db' = AfterRollback(db, tx.tables)
    /\ tx' = NoTx
    /\ jobLogs' = IF logged
                  THEN LogFailedOperation(jobLogs, loc.operation.op,
                                          JobTableName(loc.operation), clock + 1)
                  ELSE jobLogs
    /\ res' = Failure("Exception")
    /\ pc' = "done"
    /\ clock' = clock + 1
    /\ UNCHANGED <<call, pre, loc>>

\* execute_archive_operation / execute_delete_operation up to the first
\* write: the checks, the preview, or begin() and start_job_log().
EnterCore(c, o, beginOk, logged) ==
    LET verdict == EntryVerdict(o)
        fresh == IF pc = "done"
                 THEN [NoLoc EXCEPT !.run = loc.run + 1, !.first = res]
                 ELSE NoLoc
    IN
    /\ call' = c
    /\ pre' = db
    /\ clock' = clock + 1
    /\ UNCHANGED db
    /\ IF verdict = "preview"
       THEN /\ res' = Preview(o, db)
            /\ pc' = "done"
            /\ loc' = [fresh EXCEPT !.operation = o]
            /\ UNCHANGED <<tx, jobLogs>>
       ELSE IF verdict = "execute"
       THEN IF beginOk
            THEN /\ tx' = [open |-> TRUE, tables |-> db,
                           logs |-> StartJobLog(jobLogs, o.op, JobTableName(o), clock + 1)]
                 /\ pc' = IF o.op = "ARCHIVE" THEN "probe" ELSE "delete"
                 /\ loc' = [fresh EXCEPT !.operation = o, !.began = TRUE]
                 /\ UNCHANGED <<res, jobLogs>>
            ELSE /\ tx' = NoTx
                 /\ jobLogs' = IF logged
                               THEN LogFailedOperation(jobLogs, o.op, JobTableName(o), clock + 1)
                               ELSE jobLogs
                 /\ res' = Failure("Exception")
                 /\ pc' = "done"
                 /\ loc' = [fresh EXCEPT !.operation = o, !.began = TRUE]
       ELSE /\ res' = Failure(verdict)
            /\ pc' = "done"
            /\ loc' = [fresh EXCEPT !.operation = o]
            /\ UNCHANGED <<tx, jobLogs>>

\* A wrapper's own refusal: the core is never called.
RefuseInWrapper(c) ==
    /\ call' = c
    /\ pre' = db
    /\ res' = Failure("SafetyRuleViolation")
    /\ pc' = "done"
    /\ loc' = NoLoc
    /\ clock' = clock + 1
    /\ UNCHANGED <<db, jobLogs, tx>>

\* Chat tool archive_records.
ArchiveRecords ==
    /\ UNCHANGED <<regionVars, chatVars, sqlVars>>
    /\ pc = "idle"
    /\ \E c \in ToolCalls, beginOk \in BOOLEAN, logged \in BOOLEAN :
          /\ c.op = "ARCHIVE"
          /\ IF ToolRefuses(c.filters, DefaultArchiveDays, ToolArchiveMinDays)
             THEN RefuseInWrapper(c)
             ELSE EnterCore(c, ArchiveRecordsOperation(c), beginOk, logged)

\* Chat tool delete_archived_records.
DeleteArchivedRecords ==
    /\ UNCHANGED <<regionVars, chatVars, sqlVars>>
    /\ pc = "idle"
    /\ \E c \in ToolCalls, beginOk \in BOOLEAN, logged \in BOOLEAN :
          /\ c.op = "DELETE"
          /\ IF ToolRefuses(c.filters, DefaultDeleteDays, ToolDeleteMinDays)
             THEN RefuseInWrapper(c)
             ELSE EnterCore(c, DeleteArchivedRecordsOperation(c), beginOk, logged)

\* POST /chat/confirm: the request's table and filters go to the core as
\* they are, with the caller's role; an unconfirmed request is a cancel.
ConfirmOperation ==
    /\ UNCHANGED <<regionVars, chatVars, sqlVars>>
    /\ pc = "idle"
    /\ \E c \in ConfirmCalls, beginOk \in BOOLEAN, logged \in BOOLEAN :
          IF c.confirmed
          THEN EnterCore(c, c, beginOk, logged)
          ELSE /\ call' = c
               /\ pre' = db
               /\ res' = Failure("Cancelled")
               /\ pc' = "done"
               /\ loc' = NoLoc
               /\ clock' = clock + 1
               /\ UNCHANGED <<db, jobLogs, tx>>

\* Step 1 of _perform_archive: the duplicate probe.  An exception inside it
\* is swallowed and the empty set returned.
Probe ==
    /\ UNCHANGED <<regionVars, chatVars, sqlVars>>
    /\ pc = "probe"
    /\ \E probeOk \in BOOLEAN :
          LET existing == IF probeOk
                          THEN CheckExistingRecords(loc.operation, tx.tables)
                          ELSE {}
          IN loc' = [loc EXCEPT !.existing = existing,
                                !.skipped = Cardinality(existing)]
    /\ pc' = "insert"
    /\ clock' = clock + 1
    /\ UNCHANGED <<db, jobLogs, tx, call, res, pre>>

\* Step 4: INSERT INTO archive ... SELECT.  A table without a column
\* mapping raises before the statement.
Insert ==
    /\ UNCHANGED <<regionVars, chatVars, sqlVars>>
    /\ pc = "insert"
    /\ loc.operation.table \in MainTables
    /\ \E chosen \in InsertChoices(loc.operation, tx.tables, loc.existing) :
          /\ tx' = [tx EXCEPT !.tables[GetArchiveTableName(loc.operation.table)] =
                                  AddRows(@, chosen)]
          /\ loc' = [loc EXCEPT !.ins = chosen, !.archived = Cardinality(chosen)]
    /\ pc' = "clean"
    /\ clock' = clock + 1
    /\ UNCHANGED <<db, jobLogs, call, res, pre>>

InsertRaises ==
    /\ UNCHANGED <<regionVars, chatVars, sqlVars>>
    /\ pc = "insert"
    /\ \E logged \in BOOLEAN : Fail(logged)

\* Step 5: DELETE FROM main.
CleanSource ==
    /\ UNCHANGED <<regionVars, chatVars, sqlVars>>
    /\ pc = "clean"
    /\ \E gone \in DeleteChoices(loc.operation, tx.tables) :
          /\ tx' = [tx EXCEPT !.tables[loc.operation.table] = RemoveRows(@, gone)]
          /\ loc' = [loc EXCEPT !.del = gone, !.deleted = Cardinality(gone)]
    /\ pc' = "commit"
    /\ clock' = clock + 1
    /\ UNCHANGED <<db, jobLogs, call, res, pre>>

CleanSourceRaises ==
    /\ UNCHANGED <<regionVars, chatVars, sqlVars>>
    /\ pc = "clean"
    /\ \E logged \in BOOLEAN : Fail(logged)

\* _perform_delete on the archive table.
PerformDelete ==
    /\ UNCHANGED <<regionVars, chatVars, sqlVars>>
    /\ pc = "delete"
    /\ ~PerformDeleteRaises(loc.operation)
    /\ LET gone == PerformDeleteRows(loc.operation, tx.tables)
           table == SourceTable(loc.operation)
       IN /\ loc' = [loc EXCEPT !.del = gone,
                                !.deleted = CountRows(tx.tables[table], gone)]
          /\ tx' = [tx EXCEPT !.tables[table] = RemoveRows(@, gone)]
    /\ pc' = "commit"
    /\ clock' = clock + 1
    /\ UNCHANGED <<db, jobLogs, call, res, pre>>

PerformDeleteFails ==
    /\ UNCHANGED <<regionVars, chatVars, sqlVars>>
    /\ pc = "delete"
    /\ \E logged \in BOOLEAN : Fail(logged)

\* complete_job_log(SUCCESS), commit, and the success result.
Commit ==
    /\ UNCHANGED <<regionVars, chatVars, sqlVars>>
    /\ pc = "commit"
    /\ LET n == IF loc.operation.op = "ARCHIVE" THEN loc.archived ELSE loc.deleted IN
       /\ db' = AfterCommit(db, tx.tables)
       /\ jobLogs' = CompleteJobLog(tx.logs, "SUCCESS", n, clock + 1)
       /\ res' = [NoRes EXCEPT !.success = TRUE, !.error = "",
                               !.records_archived = loc.archived,
                               !.records_deleted = loc.deleted,
                               !.records_skipped = loc.skipped]
    /\ tx' = NoTx
    /\ pc' = "done"
    /\ clock' = clock + 1
    /\ UNCHANGED <<call, pre, loc>>

CommitRaises ==
    /\ UNCHANGED <<regionVars, chatVars, sqlVars>>
    /\ pc = "commit"
    /\ \E logged \in BOOLEAN : Fail(logged)

Next ==
    \/ ArchiveRecords
    \/ DeleteArchivedRecords
    \/ ConfirmOperation
    \/ Probe
    \/ Insert
    \/ InsertRaises
    \/ CleanSource
    \/ CleanSourceRaises
    \/ PerformDelete
    \/ PerformDeleteFails
    \/ Commit
    \/ CommitRaises

Spec == Init /\ [][Next]_vars

-----------------------------------------------------------------------------
(* The same request sent again: after an ARCHIVE that returned success the  *)
(* caller repeats the call, table and filters unchanged, and nothing else   *)
(* writes to the tables in between.                                         *)

MaxRuns == 2

Rerun ==
    /\ UNCHANGED <<regionVars, chatVars, sqlVars>>
    /\ pc = "done"
    /\ call.op = "ARCHIVE"
    /\ loc.began
    /\ res.success
    /\ loc.run < MaxRuns
    /\ \E beginOk \in BOOLEAN, logged \in BOOLEAN :
          IF call.via = "tool"
          THEN EnterCore(call, ArchiveRecordsOperation(call), beginOk, logged)
          ELSE EnterCore(call, call, beginOk, logged)

RerunSpec == Init /\ [][Next \/ Rerun]_vars

-----------------------------------------------------------------------------
(* A concurrent writer: between the duplicate probe and the INSERT another  *)
(* session commits into the archive a copy of a main row whose key the      *)
(* archive did not hold.                                                    *)

ConcurrentWriter ==
    /\ UNCHANGED <<regionVars, chatVars, sqlVars>>
    /\ pc = "insert"
    /\ loc.operation.table \in MainTables
    /\ loc.raced = {}
    /\ LET table == loc.operation.table
           arch == GetArchiveTableName(table)
       IN \E w \in DOMAIN tx.tables[table] :
             /\ w.k # NULL
             /\ ArchiveKey(table, w) \notin KeysOf(arch, tx.tables[arch])
             /\ db' = [db EXCEPT ![arch] = AddRows(@, {w})]
             /\ tx' = [tx EXCEPT !.tables[arch] = AddRows(@, {w})]
             /\ loc' = [loc EXCEPT !.raced = {w}]
    /\ UNCHANGED <<jobLogs, call, pc, res, pre, clock>>

\* The except branch of Step 4.  The INSERT selected, on the rows it read
\* before the other session committed, a GUID the unique key of the archive
\* now holds: "Duplicate entry ... GUID".  For dsitransactionlog the GUIDs of
\* the matching rows are then checked one by one, each GUID found in the
\* archive adds one to skipped_count, and the rows of the other GUIDs are
\* copied (no exclusions, no limit).
InsertFallback ==
    /\ UNCHANGED <<regionVars, chatVars, sqlVars>>
    /\ pc = "insert"
    /\ loc.operation.table = Transactions
    /\ \E chosen \in InsertChoices(loc.operation, pre, loc.existing) :
          \E r \in chosen, w \in loc.raced : r.k = w.k
    /\ LET o == loc.operation
           arch == tx.tables[TransactionsArchive]
           candidate_records ==
               {r \in DOMAIN tx.tables[Transactions] :
                   WhereClause(o.filters, r) /\ r.k # NULL}
           safe == {r \in candidate_records : ~(\E a \in DOMAIN arch : a.k = r.k)}
       IN /\ tx' = [tx EXCEPT !.tables[TransactionsArchive] = AddRows(@, safe)]
          /\ loc' = [loc EXCEPT
                        !.ins = safe,
                        !.archived = Cardinality(safe),
                        !.skipped = @ + Cardinality(candidate_records \ safe),
                        !.fallback = TRUE]
    /\ pc' = "clean"
    /\ clock' = clock + 1
    /\ UNCHANGED <<db, jobLogs, call, res, pre>>

RaceSpec == Init /\ [][Next \/ ConcurrentWriter \/ InsertFallback]_vars

-----------------------------------------------------------------------------
(* The region manager on its own: calls arrive at any time, the event loop  *)
(* runs them; the archive engine is at rest.                                *)

CrudAtRest ==
    /\ db = EmptyDb
    /\ jobLogs = <<>>
    /\ tx = NoTx
    /\ call = NoCall
    /\ pc = "idle"
    /\ res = NoRes
    /\ pre = EmptyDb
    /\ loc = NoLoc
    /\ clock = Now

AllAtRest == CrudAtRest /\ RegionAtRest /\ ChatAtRest /\ SqlAtRest

RegionNext ==
    \/ \E t \in Tasks : ConnectLookup(t)
    \/ \E t \in Tasks : ConnectCreate(t)
    \/ \E t \in Tasks : ConnectSetEngine(t)
    \/ \E t \in Tasks : ConnectSetSessionMaker(t)
    \/ \E t \in Tasks : ConnectSetStatus(t)
    \/ \E t \in Tasks : ConnectUpdate(t)
    \/ \E t \in Tasks : ConnectExcept(t)
    \/ \E t \in Tasks : DisconnectDispose(t)
    \/ \E t \in Tasks : DisconnectDelEngine(t)
    \/ \E t \in Tasks : DisconnectDelSessionMaker(t)
    \/ \E t \in Tasks : DisconnectSetStatus(t)
    \/ GetSession

RegionSpec == AllAtRest /\ [][RegionNext]_vars

-----------------------------------------------------------------------------
(* The chat orchestrator on its own: one session, message after message.    *)

ChatSpec == AllAtRest /\ [][ChatRequest \/ ChatConfirm]_vars

-----------------------------------------------------------------------------
(* The Safe-SQL executor on its own: one call per generated query.          *)

SqlInit ==
    /\ CrudAtRest /\ RegionAtRest /\ ChatAtRest
    /\ generated_sql \in SeqsUpTo(MaxSqlLen)
    /\ sqlResult = NoSqlResult

SqlSpec == SqlInit /\ [][ExecuteSqlQuery]_vars

-----------------------------------------------------------------------------
(* Properties.  pre is the database when the call arrived, db the committed *)
(* database, loc.operation the ParsedOperation the core received.           *)

Returned == pc = "done"
CoreOp == loc.operation
ReachedCore == loc.operation # NoCall
AdminCall == ReachedCore /\ CoreOp.role = "Admin" /\ SupportedTable(CoreOp.table)
ArchiveOfCall == GetArchiveTableName(CoreOp.table)
\* A confirmed ARCHIVE that committed.
ArchiveSucceeded == Returned /\ CoreOp.op = "ARCHIVE" /\ loc.began /\ res.success
\* The duplicate probe of the call answered (it did not fall back to set()).
ProbeAnswered == loc.existing = CheckExistingRecords(CoreOp, pre)

\* The rows of the source table that match the filters the core received.
MatchingRows ==
    {r \in DOMAIN pre[SourceTable(CoreOp)] : ApplyFilters(CoreOp.filters, r)}

\* The row sets the call may select: the oldest N under a limit.
Selections ==
    IF HasLimit(CoreOp.filters)
    THEN TopN(MatchingRows, CoreOp.filters.limit)
    ELSE {MatchingRows}

SelectsRowNewerThan(cut) == \E C \in Selections : \E r \in C : r.t > cut

NoSuccessLog == \A i \in 1..Len(jobLogs) : jobLogs[i].status # "SUCCESS"

\* C1: every ARCHIVE call (preview or confirmed, any filters) that selects a
\* row newer than now - 7 days returns SafetyRuleViolation and writes no
\* SUCCESS job-log row.
C1_ArchiveRetentionGate ==
    (/\ Returned
     /\ call.op = "ARCHIVE"
     /\ AdminCall
     /\ CoreOp.table \in MainTables
     /\ SelectsRowNewerThan(ArchCut))
    => (res.error = "SafetyRuleViolation" /\ NoSuccessLog)

\* The committed database after the whole ARCHIVE took effect.
ArchiveEffect ==
    [pre EXCEPT ![CoreOp.table] = RemoveRows(@, loc.del),
                ![ArchiveOfCall] = AddRows(@, loc.ins)]

\* C2: a confirmed ARCHIVE is atomic: the committed database is the one the
\* call found until the call returns success, and then it holds all of the
\* call's inserts and all of its deletes; a failed call leaves none of them.
C2_ArchiveOneTransaction ==
    (CoreOp.op = "ARCHIVE" /\ loc.began)
    => IF Returned /\ res.success
       THEN CoreOp.table \in MainTables /\ db = ArchiveEffect
       ELSE db = pre

\* C2 witness: the call failed after its INSERT had copied rows.
C2_FailedAfterInsert ==
    /\ Returned
    /\ CoreOp.op = "ARCHIVE"
    /\ loc.began
    /\ ~res.success
    /\ loc.ins # {}
    /\ db = pre

\* The matching main rows whose archive key the archive held before the run.
DuplicatesBefore ==
    {r \in DOMAIN pre[CoreOp.table] :
        /\ WhereClause(CoreOp.filters, r)
        /\ r.k # NULL
        /\ ArchiveKey(CoreOp.table, r) \in KeysOf(ArchiveOfCall, pre[ArchiveOfCall])}

\* C3: after a successful ARCHIVE (no limit, probe answered) the matching
\* rows left in main are exactly the duplicates, and their number is
\* records_skipped.
C3_DuplicatesStayInMain ==
    (ArchiveSucceeded /\ ProbeAnswered /\ ~HasLimit(CoreOp.filters))
    => LET left == {r \in DOMAIN db[CoreOp.table] : WhereClause(CoreOp.filters, r)}
       IN /\ left = DuplicatesBefore
          /\ CountRows(db[CoreOp.table], left) = res.records_skipped

\* C4: every successful ARCHIVE (probe answered) returns
\* records_archived + records_skipped = records_deleted.
C4_CounterRelation ==
    (ArchiveSucceeded /\ ProbeAnswered)
    => res.records_archived + res.records_skipped = res.records_deleted

\* C5: after a successful ARCHIVE no archive key is held twice, and the
\* INSERT copied no row whose key the archive already held.
C5_ArchiveKeysUnique ==
    ArchiveSucceeded
    => /\ ~HasDuplicateKey(ArchiveOfCall, db[ArchiveOfCall])
       /\ \A r \in loc.ins :
             ArchiveKey(CoreOp.table, r) \notin KeysOf(ArchiveOfCall, pre[ArchiveOfCall])

\* C6: a confirmed ARCHIVE or DELETE call leaves exactly one committed
\* job-log row, SUCCESS or FAILED, with finished_at >= started_at, whether it
\* ends in success, in a validation failure or in an exception.
C6_OneJobLogPerCall ==
    (Returned /\ ReachedCore /\ CoreOp.confirmed)
    => /\ Len(jobLogs) = 1
       /\ jobLogs[1].status \in {"SUCCESS", "FAILED"}
       /\ jobLogs[1].finished_at >= jobLogs[1].started_at

\* C7: when the transaction of a call rolled back on an exception, a
\* committed FAILED job-log row exists, written through a session other than
\* the one that rolled back.
C7_FailedLogBySeparateSession ==
    (Returned /\ ReachedCore /\ loc.began /\ ~res.success)
    => \E i \in 1..Len(jobLogs) :
          /\ jobLogs[i].status = "FAILED"
          /\ jobLogs[i].by # RequestSession

\* C8: every DELETE call (preview or confirmed, any filters) that selects a
\* row newer than now - 30 days returns SafetyRuleViolation and writes no
\* SUCCESS job-log row.
C8_DeleteRetentionGate ==
    (/\ Returned
     /\ call.op = "DELETE"
     /\ AdminCall
     /\ SelectsRowNewerThan(DelCut))
    => (res.error = "SafetyRuleViolation" /\ NoSuccessLog)

\* C9: a DELETE call, through the chat tool or the confirm endpoint and with
\* any table name, leaves both main tables as it found them.
C9_DeleteLeavesMainTables ==
    call.op = "DELETE" => \A m \in MainTables : db[m] = pre[m]

\* C9 witness: a confirmed DELETE named a main table that holds rows, and
\* removed rows.
C9_DeleteNamedMainTable ==
    /\ Returned
    /\ call.op = "DELETE"
    /\ call.table \in MainTables
    /\ pre[call.table] # EmptyTable
    /\ res.success
    /\ res.records_deleted > 0

\* C10: an ARCHIVE call that names an archive table is rejected by the core
\* and inserts and deletes no rows.
C10_ArchiveRejectsArchiveTable ==
    (/\ Returned
     /\ CoreOp.op = "ARCHIVE"
     /\ CoreOp.role = "Admin"
     /\ CoreOp.table \in ArchiveTables)
    => (~res.success /\ db = pre)

\* An ARCHIVE preview that the core answered.
ArchivePreviewed ==
    /\ Returned
    /\ CoreOp.op = "ARCHIVE"
    /\ ~CoreOp.confirmed
    /\ res.success

\* C11: an ARCHIVE preview with preview_count > 0 carries
\* requires_confirmation = true and changes neither the main table, nor the
\* archive table, nor the job log.
C11_PreviewMovesNoRows ==
    (ArchivePreviewed /\ res.preview_count > 0)
    => /\ res.requires_confirmation
       /\ db = pre
       /\ jobLogs = <<>>

\* C11 witness: a preview counted rows of a populated main table.
C11_PreviewCountedRows ==
    /\ ArchivePreviewed
    /\ CoreOp.table \in MainTables
    /\ res.preview_count > 0
    /\ pre[CoreOp.table] # EmptyTable

\* A second run of the same ARCHIVE returned success.
SecondRunSucceeded == ArchiveSucceeded /\ loc.run = 2

FallbackSkippedRows ==
    {r \in DOMAIN pre[Transactions] :
        /\ WhereClause(CoreOp.filters, r)
        /\ r.k # NULL
        /\ \E a \in DOMAIN pre[TransactionsArchive] \cup loc.raced : a.k = r.k}

\* C28: an ARCHIVE whose INSERT met the key of a concurrent writer and fell
\* back to the per-row checks copies exactly the matching rows whose GUID
\* the archive does not hold, and returns as records_skipped the number of
\* rows it skipped, each counted once.
C28_FallbackCountsSkippedOnce ==
    (ArchiveSucceeded /\ loc.fallback)
    => /\ loc.ins = {r \in DOMAIN pre[Transactions] :
                        WhereClause(CoreOp.filters, r) /\ r.k # NULL}
                    \ FallbackSkippedRows
       /\ res.records_skipped = Cardinality(FallbackSkippedRows)

\* The insert of an ARCHIVE on the transaction table has run.
TransactionInsertDone ==
    /\ CoreOp.op = "ARCHIVE"
    /\ CoreOp.table = Transactions
    /\ loc.began
    /\ pc \in {"clean", "commit", "done"}

\* C23: a transaction row whose GUID is NULL is no candidate of the
\* duplicate probe and is not copied by the INSERT, whether or not it matches
\* the filter.
C23_NullGuidNeitherProbedNorInserted ==
    TransactionInsertDone
    => /\ <<NULL>> \notin loc.existing
       /\ \A r \in loc.ins : r.k # NULL

\* C23 witness: a successful ARCHIVE of the transaction table copied a row
\* while a matching row with GUID NULL was in main.
C23_NullGuidRowMatched ==
    /\ ArchiveSucceeded
    /\ CoreOp.table = Transactions
    /\ ProbeAnswered
    /\ loc.ins # {}
    /\ \E r \in DOMAIN pre[Transactions] :
          r.k = NULL /\ WhereClause(CoreOp.filters, r)

\* C25: an ARCHIVE call whose date_end is later than now - 7 days, compared
\* as full timestamps, is refused: it neither previews nor opens a
\* transaction.
C25_DateEndComparedInFull ==
    (/\ Returned
     /\ ReachedCore
     /\ CoreOp.op = "ARCHIVE"
     /\ CoreOp.filters.date_end # Absent
     /\ CoreOp.filters.date_end > ArchCut)
    => (~res.success /\ ~loc.began)

\* C26: every row a successful ARCHIVE deleted from main is, with the same
\* column values, in the archive table after the commit.
C26_DeletedRowsAreArchived ==
    ArchiveSucceeded => \A r \in loc.del : r \in DOMAIN db[ArchiveOfCall]

\* A row passes every date filter the operation carries.
PassesSuppliedFilters(f, r) ==
    /\ f.date_start # Absent => f.date_start <= r.t
    /\ f.date_end # Absent =>
          IF f.date_comparison = "older_than" THEN r.t < f.date_end ELSE r.t <= f.date_end

\* C27: every row a successful ARCHIVE copied or deleted, or a successful
\* DELETE removed, passes every filter of the operation, a date_start
\* without date_end included.
C27_EveryFilterRestricts ==
    (Returned /\ ReachedCore /\ loc.began /\ res.success)
    => \A r \in loc.ins \cup loc.del : PassesSuppliedFilters(CoreOp.filters, r)

\* The rows of main an ARCHIVE may copy: they match the filter, their key is
\* not in the archive and, for transactions, their GUID is not NULL.
EligibleRows ==
    {r \in MatchingRows :
        /\ ArchiveKey(CoreOp.table, r) \notin KeysOf(ArchiveOfCall, pre[ArchiveOfCall])
        /\ (CoreOp.table = Transactions => r.k # NULL)}

\* C22: a successful ARCHIVE with limit N over more than N eligible rows
\* copies N rows and deletes N rows, in both cases N oldest eligible rows.
C22_LimitTakesOldestOnBothSides ==
    (/\ ArchiveSucceeded
     /\ ProbeAnswered
     /\ HasLimit(CoreOp.filters)
     /\ Cardinality(EligibleRows) > CoreOp.filters.limit)
    => /\ res.records_archived = CoreOp.filters.limit
       /\ res.records_deleted = CoreOp.filters.limit
       /\ loc.ins \in TopN(EligibleRows, CoreOp.filters.limit)
       /\ loc.del \in TopN(EligibleRows, CoreOp.filters.limit)

-----------------------------------------------------------------------------
(* Properties of the region manager (RegionSpec). *)

AllIdle == \A t \in Tasks : tasks[t].pc = "idle"

\* What the manager holds for one region.
Entry(M, r) ==
    [engine |-> IF r \in DOMAIN M.engines THEN M.engines[r] ELSE 0,
     session_maker |-> IF r \in DOMAIN M.session_makers
                       THEN M.session_makers[r] ELSE 0,
     status |-> IF r \in DOMAIN M.connection_status
                THEN (IF M.connection_status[r] THEN "connected"
                      ELSE "not connected")
                ELSE "absent"]

\* One engine, a session maker bound to it, and the connected mark.
ConnectedEntry(M, r) ==
    /\ r \in DOMAIN M.engines
    /\ r \in DOMAIN M.session_makers
    /\ M.session_makers[r] = M.engines[r]
    /\ IsConnected(M, r)

OthersUnchanged(r) ==
    \A q \in Regions \ {r} : Entry(last.after, q) = Entry(last.before, q)

\* C16: get_session vends a session only for a region that is marked
\* connected, whatever connect and disconnect calls (failed connects among
\* them) came before.
C16_SessionOnlyIfConnected == vended.vended => vended.connected

MutatingSteps ==
    {"set_engine", "set_maker", "set_status", "del_engine", "del_maker",
     "clear_status", "except"}

\* The dictionaries hold what the calls, run one after the other in the order
\* they started, would have left.
SerialOrderHolds == AllIdle => Manager = serial

AlreadyConnected ==
    /\ last.kind = "connect" /\ last.result
    /\ ConnectedEntry(last.before, last.region)

\* C18: a successful connect of a region that was already connected leaves
\* the region as one successful connect leaves it: one engine, a session
\* maker bound to that engine, marked connected; other regions untouched.
C18_ConnectIdempotent ==
    AlreadyConnected =>
        /\ ConnectedEntry(last.after, last.region)
        /\ DOMAIN last.after.engines = DOMAIN last.before.engines
        /\ DOMAIN last.after.session_makers = DOMAIN last.before.session_makers
        /\ OthersUnchanged(last.region)

\* C18 witness: a second successful connect of a connected region returned.
C18_SecondConnectReturned ==
    /\ AlreadyConnected
    /\ last.after.created = last.before.created + 1

\* C19: after a disconnect that returned True the region has no engine and
\* no session maker, is marked not connected, the engine it had was
\* disposed, and every other region's entry is what it was.
C19_DisconnectClearsEntry ==
    (last.kind = "disconnect" /\ last.result) =>
        /\ last.region \notin DOMAIN last.after.engines
        /\ last.region \notin DOMAIN last.after.session_makers
        /\ Entry(last.after, last.region).status = "not connected"
        /\ last.region \in DOMAIN last.before.engines =>
               last.before.engines[last.region] \in last.after.disposed
        /\ OthersUnchanged(last.region)

\* C19 witness: a connected region was disconnected while another region
\* stayed connected.
C19_DisconnectedOneOfTwo ==
    /\ last.kind = "disconnect" /\ last.result
    /\ ConnectedEntry(last.before, last.region)
    /\ \E q \in Regions \ {last.region} : ConnectedEntry(last.before, q)

-----------------------------------------------------------------------------
(* Properties of the chat orchestrator (ChatSpec). *)

ToolInvoked == turn.invoked # NoCall
ConfirmLiteral ==
    Mentions(turn.message, "CONFIRM ARCHIVE") \/ Mentions(turn.message, "CONFIRM DELETE")

\* The rows of the session before the turn just answered.
EarlierLogs == SubSeq(chatLogs, 1, Len(chatLogs) - 1)

\* C12: an ARCHIVE or DELETE reaches execution with confirmed=true only for
\* a caller whose authenticated role is Admin, on the chat paths (the
\* confirmation literal and the router's tool call).
C12_ConfirmedOnlyForAdmin ==
    (ToolInvoked /\ turn.invoked.confirmed /\ turn.verdict = "execute")
        => turn.caller = "Admin"

C14_NoPreviewNoTool ==
    (/\ ConfirmLiteral
     /\ \A i \in DOMAIN EarlierLogs : ~IsPreviewLog(EarlierLogs[i]))
        => ~ToolInvoked

\* C15: a confirmation that follows a preview calls the tool of the preview,
\* on the table stored with the preview turn, with the filters stored with
\* it plus confirmed=true.
C15_ConfirmRepeatsPreview ==
    (ConfirmLiteral /\ ToolInvoked /\ IsPreviewLog(turn.preview))
        => /\ turn.preview.bot_response.says =
                 (IF turn.invoked.op = "ARCHIVE" THEN "Archive Preview"
                  ELSE "Delete Preview")
           /\ turn.invoked.table = turn.preview.table_name
           /\ turn.invoked.filters =
                 [turn.preview.filters_applied EXCEPT !.confirmed = TRUE]

\* C24: a conversational turn (a greeting, or a message the router answers
\* without a tool) adds no row to the chat log.
C24_ConversationAddsNoRow ==
    [][turn'.response.says \in {"welcome", "conversation"} => chatLogs' = chatLogs]_vars

\* A preview turn came before the turn just answered.
AfterPreview == \E i \in DOMAIN EarlierLogs : IsPreviewLog(EarlierLogs[i])

\* C29: after a preview, an Admin's message with CANCEL, ABORT or NO in it is
\* answered as a cancellation and invokes no archive or delete tool, also
\* when it holds CONFIRM ARCHIVE or CONFIRM DELETE.
C29_CancelWordCancels ==
    (/\ AfterPreview
     /\ turn.caller = "Admin"
     /\ \/ Mentions(turn.message, "CANCEL")
        \/ Mentions(turn.message, "ABORT")
        \/ Mentions(turn.message, "NO"))
    => (~ToolInvoked /\ turn.response.says = "cancelled")

\* C30: the archive or delete tool a chat turn invokes works on the
\* database of the turn's region, the one confirm_operation takes from the
\* region manager for that region.
C30_ChatToolOnRegionDatabase ==
    ToolInvoked => turn.database = RegionSession(turn.region)

-----------------------------------------------------------------------------
(* Properties of the Safe-SQL executor (SqlSpec). *)

\* The tokens of a query that are not inside a quoted literal, as the
\* database reads it: a literal runs from a quote character to the next one
\* of the same kind, and the other quote character inside it is data.
RECURSIVE OutsideLiterals(_, _)
OutsideLiterals(s, open) ==
    IF s = <<>> THEN <<>>
    ELSE IF open = ""
    THEN IF Head(s) \in {"'", "\""}
         THEN OutsideLiterals(Tail(s), Head(s))
         ELSE <<Head(s)>> \o OutsideLiterals(Tail(s), "")
    ELSE IF Head(s) = open THEN OutsideLiterals(Tail(s), "")
    ELSE OutsideLiterals(Tail(s), open)

\* C20: a query with a forbidden keyword outside its quoted literals is
\* answered with SQLSafetyViolation and nothing is sent to the database.
C20_ForbiddenNeverExecuted ==
    (/\ sqlResult # NoSqlResult
     /\ MatchesForbidden(OutsideLiterals(generated_sql, "")))
        => /\ sqlResult.outcome = "SQLSafetyViolation"
           /\ sqlResult.executed = <<>>

=============================================================================
